---- MODULE Spec2Model ----
(***************************************************************************)
(* Model of the AI image suite front-end: the App shell that mounts one    *)
(* tool at a time, the Gallery component (localStorage-backed collection   *)
(* of image records with favourite toggle and delete) and the AI tools     *)
(* that produce images.                                                    *)
(***************************************************************************)
EXTENDS Integers, Sequences, FiniteSets, TLC

VARIABLES
    user,           \* App: useState<User | null>(null)
    loading,        \* App: useState(true)
    activeTool,     \* App: which tool component is mounted
    localStorage,   \* the value stored under the key 'gallery-images'
    storageDisabled,\* TRUE iff the browser denies access to localStorage
    galleryPc,      \* Gallery: "unmounted" | "rendered" (mount effect pending) | "ready"
    images,         \* Gallery: useState<GalleryImage[]>
    isLoading,      \* Gallery: useState(true)
    searchQuery,    \* Gallery: searchQuery
    filterType,     \* Gallery: filterType
    sortBy,         \* Gallery: sortBy
    filteredImages, \* Gallery: filteredImages
    lastOp,         \* name of the handler that ran last
    lastArg,        \* its argument
    lastThrew,      \* TRUE iff it ended by throwing to its caller
    lastToast,      \* title of the toast it showed, "none" if none
    setItemCalls,   \* the values it passed to localStorage.setItem, in call order
    setItemFailed,  \* TRUE iff its call of localStorage.setItem threw
    imagesBefore,   \* the `images` its closure captured
    genPrompt,      \* ImageGenerator: prompt
    genNumImages,   \* ImageGenerator: numImages
    isGenerating,   \* ImageGenerator: isGenerating
    genProgress,    \* ImageGenerator: progress
    generatedImages,\* ImageGenerator: generatedImages
    genCall,        \* ImageGenerator: the handleGenerate call awaiting the service
    genStrayTimers, \* ImageGenerator: live intervals of calls that have ended
    genOrphans,     \* number of handleGenerate calls in flight whose component is gone
    selectedFile,   \* UnblurTool, UpscalerTool, BackgroundRemover: selectedFile
    previewUrl,     \* the same: previewUrl
    isProcessing,   \* the same: isProcessing
    upProgress,     \* the same: progress
    upscaledImages, \* the same: upscaledImages, processedImages
    upCall,         \* the same: the upscaleImage or processImage call in progress
    upOrphans,      \* the tools of the file-tool calls in flight whose component is gone
    basePrompt,     \* BatchGenerator: basePrompt
    variations,     \* BatchGenerator: variations
    batchGenerating,\* BatchGenerator: isGenerating
    batchProgress,  \* BatchGenerator: progress
    batchJobs,      \* BatchGenerator: batchJobs
    batchCall,      \* BatchGenerator: the generateBatch call awaiting the service
    batchRequests,  \* the prompts that call has passed to generateImage, in order
    batchOrphans    \* generateBatch calls in flight whose component is gone

appVars     == <<user, loading, activeTool>>
storeVars   == <<localStorage, storageDisabled>>
queryVars   == <<searchQuery, filterType, sortBy>>
galleryVars == <<galleryPc, images, isLoading, queryVars, filteredImages>>
obsVars     == <<lastOp, lastArg, lastThrew, lastToast, setItemCalls,
                 setItemFailed, imagesBefore>>
genVars     == <<genPrompt, genNumImages, isGenerating, genProgress,
                 generatedImages, genCall, genStrayTimers, genOrphans>>
upVars      == <<selectedFile, previewUrl, isProcessing, upProgress,
                 upscaledImages, upCall, upOrphans>>
batchVars   == <<basePrompt, variations, batchGenerating, batchProgress,
                 batchJobs, batchCall, batchRequests, batchOrphans>>
toolVars    == <<genVars, upVars, batchVars>>
vars        == <<appVars, storeVars, galleryVars, obsVars, toolVars>>

---------------------------------------------------------------------------
(* Bounds *)

MaxStored == 2      \* longest array found in the store at start-up
MaxCount == 2       \* largest image count the user selects
MaxResults == 2     \* longest result list of a tool
MaxStray == 1       \* most intervals left behind by failed calls
MaxOrphans == 1     \* most calls in flight for unmounted components
MaxVariations == 2  \* most variation fields of a batch that is generated

---------------------------------------------------------------------------
(* JavaScript values *)

\* The value `undefined`, as seen when a missing property is read.
Undefined == "<undefined>"

\* obj.f for a string property f that may be missing
Get(obj, f) == IF f \in DOMAIN obj THEN obj[f] ELSE Undefined

\* truthiness of obj.f for a boolean property f that may be missing
Truthy(obj, f) == f \in DOMAIN obj /\ obj[f]

\* JSON forms of a createdAt property
Iso(t)      == [k |-> "iso", t |-> t]       \* ISO-8601 string of time value t
JsonNullVal == [k |-> "null", t |-> 0]      \* JSON null
NoValue     == [k |-> "undefined", t |-> 0] \* the property is missing

\* Date objects
DateOf(t)   == [k |-> "date", t |-> t]
InvalidDate == [k |-> "invalid", t |-> 0]

\* new Date(v)
NewDate(v) ==
    IF v.k = "iso" THEN DateOf(v.t)
    ELSE IF v.k = "null" THEN DateOf(0)
    ELSE InvalidDate

\* Date.prototype.toJSON, as JSON.stringify applies it
DateToJSON(d) == IF d.k = "date" THEN Iso(d.t) ELSE JsonNullVal

\* an array element that is JSON null instead of an object
JsonNull == [jsonType |-> "null"]

---------------------------------------------------------------------------
(* The closed set of record types *)

GalleryTypes == {"generated", "unblurred", "upscaled", "background-removed", "batch"}

Tools == {"generator", "unblur", "batch", "upscaler", "background-remover", "gallery"}

\* user === null, and the users that sign in
NoUser == "<null>"
Users  == {"ada"}

\* App renders the sidebar and the active tool (neither the spinner nor the
\* sign-in card)
Shown == ~loading /\ user # NoUser

\* the tool component t is rendered with the sign-in check left out
MountedWithoutAuth(t) == activeTool = t

\* {activeTool === t && <Tool />} behind the two early returns of App
Mounted(t) == Shown /\ activeTool = t

---------------------------------------------------------------------------
(* What the store may hold when the Gallery mounts *)

RecCat == [id |-> "1", url |-> "u1", prompt |-> <<"c", "a", "t">>,
           type |-> "generated", createdAt |-> Iso(1), isFavorite |-> FALSE]
RecDog == [id |-> "2", url |-> "u2", prompt |-> <<"d", "o", "g">>,
           type |-> "upscaled", filename |-> <<"D", "o", "c">>,
           createdAt |-> Iso(2), isFavorite |-> TRUE]
\* same id as RecCat, same createdAt and isFavorite as RecDog
RecDup == [id |-> "1", url |-> "u3", prompt |-> <<"c", "o", "d">>,
           type |-> "batch", createdAt |-> Iso(2), isFavorite |-> TRUE]
\* a type outside the closed set
RecBogus == [id |-> "3", url |-> "u4", prompt |-> <<"a">>,
             type |-> "bogus", createdAt |-> Iso(1), isFavorite |-> FALSE]
\* createdAt and isFavorite missing
RecNoDate == [id |-> "4", url |-> "u5", prompt |-> <<"a", "t">>,
              type |-> "unblurred"]

StoredObjects == {RecCat, RecDog, RecBogus, RecNoDate}
StoredValues  == StoredObjects \cup {JsonNull}

SeqsUpTo(S, n) == UNION {[1..k -> S] : k \in 0..n}

Absent      == [kind |-> "absent"]        \* getItem returns null
EmptyText   == [kind |-> "empty"]         \* the empty string
Unparseable == [kind |-> "unparseable"]   \* text that is not JSON
NonArray    == [kind |-> "nonarray"]      \* JSON, but not an array
ArrayBlob(items) == [kind |-> "array", items |-> items]

StoredBlobs ==
    {Absent, EmptyText, Unparseable, NonArray}
        \cup {ArrayBlob(s) : s \in SeqsUpTo(StoredValues, MaxStored)}

\* an id that no record has
AbsentId == "9"

\* the ids the handlers are called with: image.id of a record shown, or an id
\* that no record has
IdArgs(imgs) == {Get(imgs[i], "id") : i \in 1..Len(imgs)} \cup {AbsentId}

---------------------------------------------------------------------------
(* Gallery: serialisation *)

\* the callback of JSON.parse(savedImages).map(...) in loadImages
ReviveImage(img) ==
    [f \in (DOMAIN img) \cup {"createdAt"} |->
        IF f = "createdAt"
            THEN NewDate(IF f \in DOMAIN img THEN img[f] ELSE NoValue)
            ELSE img[f]]

\* JSON.stringify of one in-memory record
StringifyImage(img) ==
    [f \in DOMAIN img |->
        IF f = "createdAt" THEN DateToJSON(img[f]) ELSE img[f]]

\* JSON.stringify(updatedImages)
JSONStringify(imgs) ==
    ArrayBlob([i \in 1..Len(imgs) |-> StringifyImage(imgs[i])])

\* the try block of loadImages: what setImages receives, or that nothing is set
LoadResult(blob) ==
    IF blob.kind \in {"absent", "empty"}
        THEN [set |-> FALSE, threw |-> FALSE, value |-> <<>>]
    ELSE IF blob.kind \in {"unparseable", "nonarray"}
        THEN [set |-> FALSE, threw |-> TRUE, value |-> <<>>]
    ELSE IF \E i \in 1..Len(blob.items) : blob.items[i] = JsonNull
        THEN [set |-> FALSE, threw |-> TRUE, value |-> <<>>]
    ELSE [set |-> TRUE, threw |-> FALSE,
          value |-> [i \in 1..Len(blob.items) |-> ReviveImage(blob.items[i])]]

---------------------------------------------------------------------------
(* Text *)

RECURSIVE TrimStart(_)
TrimStart(s) == IF s # <<>> /\ Head(s) = " " THEN TrimStart(Tail(s)) ELSE s

RECURSIVE TrimEnd(_)
TrimEnd(s) ==
    IF s # <<>> /\ s[Len(s)] = " " THEN TrimEnd(SubSeq(s, 1, Len(s) - 1)) ELSE s

\* String.prototype.trim
Trim(s) == TrimEnd(TrimStart(s))

---------------------------------------------------------------------------
(* What the user types and what the AI service returns *)

Prompts    == {<<>>, <<" ">>, <<" ", "c">>}
RemoteUrls == {"r1", "r2"}

\* no call is awaiting the service
NoCall == [pc |-> "idle"]

\* files the user picks or drops: type is file.type.startsWith('image/'),
\* big is file.size > 10 * 1024 * 1024, decodable is whether an Image element
\* given the file fires onload
FilePng     == [name |-> "a.png", image |-> TRUE, big |-> FALSE, decodable |-> TRUE]
FilePdf     == [name |-> "b.pdf", image |-> FALSE, big |-> FALSE, decodable |-> FALSE]
FileHuge    == [name |-> "c.png", image |-> TRUE, big |-> TRUE, decodable |-> TRUE]
FileCorrupt == [name |-> "d.png", image |-> TRUE, big |-> FALSE, decodable |-> FALSE]
Files       == {FilePng, FilePdf, FileHuge, FileCorrupt}

\* selectedFile === null
NoFile == [name |-> "<null>"]

\* the empty string ''
EmptyString == <<>>

\* what the user types into a variation field
VariationTexts == {EmptyString, <<" ">>, <<"a">>}

\* what the user types as base prompt, and the url the service answers a
\* call of the batch with
BasePrompts == {EmptyString, <<" ", "c">>}
BatchUrls   == {"r1"}
FileUrls    == {"r1"}

\* BatchGenerator's progress: ((i + 1) / totalImages) * 100 as the pair of
\* i + 1 and totalImages; 0 is no call of totalImages = 1 done
NoProgress == [done |-> 0, total |-> 1]

---------------------------------------------------------------------------
(* Gallery: search, type filter and sort *)

\* String.prototype.toLowerCase, letter by letter
LowerChar(c) ==
    CASE c = "A" -> "a"
      [] c = "C" -> "c"
      [] c = "D" -> "d"
      [] c = "G" -> "g"
      [] c = "O" -> "o"
      [] c = "T" -> "t"
      [] OTHER -> c

ToLowerCase(s) == [i \in 1..Len(s) |-> LowerChar(s[i])]

\* String.prototype.includes
Includes(s, sub) ==
    \E i \in 0..(Len(s) - Len(sub)) : SubSeq(s, i + 1, i + Len(sub)) = sub

\* the search filter with the query taken as typed, not lower-cased
MatchesSearchCaseSensitive(img, query) ==
    \/ Includes(ToLowerCase(img.prompt), query)
    \/ /\ "filename" \in DOMAIN img
       /\ Includes(ToLowerCase(img.filename), query)

\* the predicate of the search filter
MatchesSearch(img, query) ==
    \/ Includes(ToLowerCase(img.prompt), ToLowerCase(query))
    \/ /\ "filename" \in DOMAIN img
       /\ Includes(ToLowerCase(img.filename), ToLowerCase(query))

\* a.getTime() - b.getTime(); the NaN of an invalid date counts as +0 in a
\* comparator result
TimeDiff(a, b) == IF a.k = "date" /\ b.k = "date" THEN a.t - b.t ELSE 0

\* the comparator with the two returns of the 'favorites' case exchanged
CompareFavoritesLast(a, b, key) ==
    CASE key = "newest" -> TimeDiff(b.createdAt, a.createdAt)
      [] key = "oldest" -> TimeDiff(a.createdAt, b.createdAt)
      [] key = "favorites" ->
            IF Truthy(a, "isFavorite") /\ ~Truthy(b, "isFavorite") THEN 1
            ELSE IF ~Truthy(a, "isFavorite") /\ Truthy(b, "isFavorite") THEN -1
            ELSE TimeDiff(b.createdAt, a.createdAt)
      [] OTHER -> 0

\* the comparator with the 'oldest' case returning what 'newest' returns
CompareOldestAsNewest(a, b, key) ==
    CASE key = "newest" -> TimeDiff(b.createdAt, a.createdAt)
      [] key = "oldest" -> TimeDiff(b.createdAt, a.createdAt)
      [] key = "favorites" ->
            IF Truthy(a, "isFavorite") /\ ~Truthy(b, "isFavorite") THEN -1
            ELSE IF ~Truthy(a, "isFavorite") /\ Truthy(b, "isFavorite") THEN 1
            ELSE TimeDiff(b.createdAt, a.createdAt)
      [] OTHER -> 0

\* the comparator passed to filtered.sort
Compare(a, b, key) ==
    CASE key = "newest" -> TimeDiff(b.createdAt, a.createdAt)
      [] key = "oldest" -> TimeDiff(a.createdAt, b.createdAt)
      [] key = "favorites" ->
            IF Truthy(a, "isFavorite") /\ ~Truthy(b, "isFavorite") THEN -1
            ELSE IF ~Truthy(a, "isFavorite") /\ Truthy(b, "isFavorite") THEN 1
            ELSE TimeDiff(b.createdAt, a.createdAt)
      [] OTHER -> 0

\* whether the comparator is a consistent comparator for the elements of s
\* (ECMAScript, Array.prototype.sort)
ConsistentComparator(s, key) ==
    \A i, j, k \in 1..Len(s) :
        LET lt(x, y) == Compare(s[x], s[y], key) < 0
            eq(x, y) == Compare(s[x], s[y], key) = 0
            gt(x, y) == Compare(s[x], s[y], key) > 0
        IN  /\ eq(i, i)
            /\ eq(i, j) => eq(j, i)
            /\ lt(i, j) => gt(j, i)
            /\ gt(i, j) => lt(j, i)
            /\ (eq(i, j) /\ eq(j, k)) => eq(i, k)
            /\ (lt(i, j) /\ lt(j, k)) => lt(i, k)
            /\ (gt(i, j) /\ gt(j, k)) => gt(i, k)

\* an insertion that puts x in front of the elements with an equal key
RECURSIVE InsertSortedBeforeTies(_, _, _)
InsertSortedBeforeTies(x, s, key) ==
    IF s = <<>> THEN <<x>>
    ELSE IF Compare(x, Head(s), key) <= 0 THEN <<x>> \o s
    ELSE <<Head(s)>> \o InsertSortedBeforeTies(x, Tail(s), key)

\* an insertion that drops x when an element with an equal key is there
RECURSIVE InsertSortedUnique(_, _, _)
InsertSortedUnique(x, s, key) ==
    IF s = <<>> THEN <<x>>
    ELSE IF Compare(x, Head(s), key) < 0 THEN <<x>> \o s
    ELSE IF Compare(x, Head(s), key) = 0 THEN s
    ELSE <<Head(s)>> \o InsertSortedUnique(x, Tail(s), key)

\* x put into the sorted sequence s behind every element that is not after it
RECURSIVE InsertSorted(_, _, _)
InsertSorted(x, s, key) ==
    IF s = <<>> THEN <<x>>
    ELSE IF Compare(x, Head(s), key) < 0 THEN <<x>> \o s
    ELSE <<Head(s)>> \o InsertSorted(x, Tail(s), key)

\* the stable sort of s by the comparator
RECURSIVE StableSort(_, _)
StableSort(s, key) ==
    IF s = <<>> THEN <<>>
    ELSE InsertSorted(s[Len(s)], StableSort(SubSeq(s, 1, Len(s) - 1), key), key)

Reorderings(s) ==
    {[i \in 1..Len(s) |-> s[f[i]]] :
        f \in {g \in [1..Len(s) -> 1..Len(s)] :
                \A i, j \in 1..Len(s) : i # j => g[i] # g[j]}}

\* Array.prototype.sort: stable for a consistent comparator, otherwise the
\* order is implementation-defined
SortOutcomes(s, key) ==
    IF ConsistentComparator(s, key) THEN {StableSort(s, key)} ELSE Reorderings(s)

\* filterAndSortImages with the type filter applied for 'all' as well
FilterAndSortImagesNoSentinel(imgs, query, type, key) ==
    LET searched == IF Trim(query) # <<>>
                        THEN SelectSeq(imgs, LAMBDA img : MatchesSearch(img, query))
                        ELSE imgs
        typed    == SelectSeq(searched, LAMBDA img : img.type = type)
    IN  SortOutcomes(typed, key)

\* filterAndSortImages: the values setFilteredImages may receive
FilterAndSortImages(imgs, query, type, key) ==
    LET searched == IF Trim(query) # <<>>
                        THEN SelectSeq(imgs, LAMBDA img : MatchesSearch(img, query))
                        ELSE imgs
        typed    == IF type # "all"
                        THEN SelectSeq(searched, LAMBDA img : img.type = type)
                        ELSE searched
    IN  SortOutcomes(typed, key)

---------------------------------------------------------------------------
(* Initial state *)

\* the App as first rendered, with one of `blobs` in the store
InitFrom(blobs) ==
    /\ activeTool = "generator"
    /\ localStorage \in blobs
    /\ storageDisabled \in BOOLEAN
    /\ storageDisabled => localStorage = Absent
    /\ galleryPc = "unmounted"
    /\ images = <<>>
    /\ isLoading = TRUE
    /\ searchQuery = <<>>
    /\ filterType = "all"
    /\ sortBy = "newest"
    /\ filteredImages = <<>>
    /\ lastOp = "init"
    /\ lastArg = "none"
    /\ lastThrew = FALSE
    /\ lastToast = "none"
    /\ setItemCalls = <<>>
    /\ setItemFailed = FALSE
    /\ imagesBefore = <<>>
    /\ genPrompt = <<>>
    /\ genNumImages = 1
    /\ isGenerating = FALSE
    /\ genProgress = 0
    /\ generatedImages = <<>>
    /\ genCall = NoCall
    /\ genStrayTimers = 0
    /\ genOrphans = 0
    /\ selectedFile = NoFile
    /\ previewUrl = ""
    /\ isProcessing = FALSE
    /\ upProgress = 0
    /\ upscaledImages = <<>>
    /\ upCall = NoCall
    /\ upOrphans = <<>>
    /\ basePrompt = <<>>
    /\ variations = <<EmptyString>>
    /\ batchGenerating = FALSE
    /\ batchProgress = NoProgress
    /\ batchJobs = <<>>
    /\ batchCall = NoCall
    /\ batchRequests = <<>>
    /\ batchOrphans = <<>>

\* App as first rendered: the auth state has not arrived
AppStarted == user = NoUser /\ loading = TRUE

\* App after onAuthStateChanged has delivered a signed-in user
AppSignedIn == user \in Users /\ loading = FALSE

Init == InitFrom(StoredBlobs) /\ AppSignedIn

---------------------------------------------------------------------------
(* What a handler without a store access leaves to be observed *)

Observe(op, arg, threw, toast) ==
    /\ lastOp' = op
    /\ lastArg' = arg
    /\ lastThrew' = threw
    /\ lastToast' = toast
    /\ setItemCalls' = <<>>
    /\ setItemFailed' = FALSE
    /\ imagesBefore' = <<>>

---------------------------------------------------------------------------
(* App *)

\* A call of a file tool that is in progress ends with a toast, unless it
\* waits for the dimensions of a file that does not decode.
Settles(call) ==
    /\ call.pc # "idle"
    /\ call.pc = "dimensions" => call.file.decodable

\* The tool component that is rendered is unmounted: its state is lost, the
\* calls it has in flight go on without it.
UnmountTool ==
    /\ genCall.pc = "awaiting" => genOrphans < MaxOrphans
    /\ genPrompt' = <<>>
    /\ genNumImages' = 1
    /\ isGenerating' = FALSE
    /\ genProgress' = 0
    /\ generatedImages' = <<>>
    /\ genCall' = NoCall
    /\ genStrayTimers' = 0
    /\ genOrphans' = IF genCall.pc = "awaiting" THEN genOrphans + 1 ELSE genOrphans
    /\ Settles(upCall) => Len(upOrphans) < MaxOrphans
    /\ selectedFile' = NoFile
    /\ previewUrl' = ""
    /\ isProcessing' = FALSE
    /\ upProgress' = 0
    /\ upscaledImages' = <<>>
    /\ upCall' = NoCall
    /\ upOrphans' = IF Settles(upCall)
                       THEN Append(upOrphans, upCall.tool)
                       ELSE upOrphans
    /\ batchCall.pc # "idle" => Len(batchOrphans) < MaxOrphans
    /\ basePrompt' = <<>>
    /\ variations' = <<EmptyString>>
    /\ batchGenerating' = FALSE
    /\ batchProgress' = NoProgress
    /\ batchJobs' = <<>>
    /\ batchCall' = NoCall
    /\ batchRequests' = <<>>
    /\ batchOrphans' = IF batchCall.pc # "idle"
                          THEN Append(batchOrphans,
                                      Len(batchCall.validVariations) - batchCall.i)
                          ELSE batchOrphans
    /\ images' = <<>>
    /\ isLoading' = TRUE
    /\ searchQuery' = <<>>
    /\ filterType' = "all"
    /\ sortBy' = "newest"
    /\ filteredImages' = <<>>

\* setActiveTool(tool.id): the previous tool component unmounts and loses
\* its state, the new one renders with its initial state.
SetActiveTool(t) ==
    /\ Shown
    /\ t # activeTool
    /\ activeTool' = t
    /\ UnmountTool
    /\ galleryPc' = IF t = "gallery" THEN "rendered" ELSE "unmounted"
    /\ lastOp' = "setActiveTool"
    /\ lastArg' = t
    /\ lastThrew' = FALSE
    /\ lastToast' = "none"
    /\ setItemCalls' = <<>>
    /\ setItemFailed' = FALSE
    /\ imagesBefore' = <<>>
    /\ UNCHANGED <<user, loading, storeVars>>

\* the callback of blink.auth.onAuthStateChanged: setUser(state.user),
\* setLoading(state.isLoading).  When App stops rendering the tools the
\* active tool unmounts; when it starts rendering them the active tool mounts
\* with its initial state.
AuthStateChanged(u, l) ==
    /\ <<u, l>> # <<user, loading>>
    /\ user' = u
    /\ loading' = l
    /\ IF Shown /\ ~l /\ u # NoUser
          THEN UNCHANGED <<galleryVars, toolVars>>
          ELSE /\ UnmountTool
               /\ galleryPc' = IF ~l /\ u # NoUser /\ activeTool = "gallery"
                                   THEN "rendered"
                                   ELSE "unmounted"
    /\ Observe("authStateChanged", u, FALSE, "none")
    /\ UNCHANGED <<activeTool, storeVars>>

---------------------------------------------------------------------------
(* Gallery *)

\* loadImages with setIsLoading(false) at the end of the try block instead of
\* in a finally block
LoadImagesNoFinally ==
    /\ galleryPc = "rendered"
    /\ LET r == IF storageDisabled
                    THEN [set |-> FALSE, threw |-> TRUE, value |-> <<>>]
                    ELSE LoadResult(localStorage)
       IN  /\ images' = IF r.set THEN r.value ELSE images
           /\ isLoading' = r.threw
    /\ filteredImages' \in FilterAndSortImages(images', searchQuery, filterType, sortBy)
    /\ UNCHANGED queryVars
    /\ lastToast' = "none"
    /\ galleryPc' = "ready"
    /\ lastOp' = "loadImages"
    /\ lastArg' = "none"
    /\ lastThrew' = FALSE
    /\ setItemCalls' = <<>>
    /\ setItemFailed' = FALSE
    /\ imagesBefore' = images
    /\ UNCHANGED <<appVars, storeVars, toolVars>>

\* useEffect(() => { loadImages() }, [])
LoadImages ==
    /\ galleryPc = "rendered"
    /\ LET r == IF storageDisabled
                    THEN [set |-> FALSE, threw |-> TRUE, value |-> <<>>]
                    ELSE LoadResult(localStorage)
       IN  images' = IF r.set THEN r.value ELSE images
    /\ filteredImages' \in FilterAndSortImages(images', searchQuery, filterType, sortBy)
    /\ UNCHANGED queryVars
    /\ lastToast' = "none"
    /\ isLoading' = FALSE
    /\ galleryPc' = "ready"
    /\ lastOp' = "loadImages"
    /\ lastArg' = "none"
    /\ lastThrew' = FALSE
    /\ setItemCalls' = <<>>
    /\ setItemFailed' = FALSE
    /\ imagesBefore' = images
    /\ UNCHANGED <<appVars, storeVars, toolVars>>

\* saveImages with setImages called before localStorage.setItem
SaveImagesMemoryFirst(updatedImages, toast) ==
    \E quotaExceeded \in BOOLEAN :
        /\ setItemCalls' = <<JSONStringify(updatedImages)>>
        /\ setItemFailed' = (storageDisabled \/ quotaExceeded)
        /\ imagesBefore' = images
        /\ UNCHANGED storageDisabled
        /\ images' = updatedImages
        /\ filteredImages' \in
             FilterAndSortImages(updatedImages, searchQuery, filterType, sortBy)
        /\ IF storageDisabled \/ quotaExceeded
              THEN /\ UNCHANGED localStorage
                   /\ lastThrew' = TRUE
                   /\ lastToast' = "none"
              ELSE /\ localStorage' = JSONStringify(updatedImages)
                   /\ lastThrew' = FALSE
                   /\ lastToast' = toast

\* saveImages(updatedImages) as called from a handler that then shows `toast`:
\* setItem throws when storage is disabled or the quota is exceeded, and then
\* nothing after it runs.
SaveImages(updatedImages, toast) ==
    \E quotaExceeded \in BOOLEAN :
        /\ setItemCalls' = <<JSONStringify(updatedImages)>>
        /\ setItemFailed' = (storageDisabled \/ quotaExceeded)
        /\ imagesBefore' = images
        /\ UNCHANGED storageDisabled
        /\ IF storageDisabled \/ quotaExceeded
              THEN /\ UNCHANGED <<localStorage, images, filteredImages>>
                   /\ lastThrew' = TRUE
                   /\ lastToast' = "none"
              ELSE /\ localStorage' = JSONStringify(updatedImages)
                   /\ images' = updatedImages
                   /\ filteredImages' \in
                        FilterAndSortImages(updatedImages, searchQuery,
                                            filterType, sortBy)
                   /\ lastThrew' = FALSE
                   /\ lastToast' = toast

\* only the toggled records, not the whole collection
ToggledOnly(imgs, imageId) ==
    LET hit == SelectSeq(imgs, LAMBDA img : Get(img, "id") = imageId)
    IN  [i \in 1..Len(hit) |->
            [f \in (DOMAIN hit[i]) \cup {"isFavorite"} |->
                IF f = "isFavorite" THEN ~Truthy(hit[i], "isFavorite")
                                    ELSE hit[i][f]]]

\* every record toggled, whatever its id
ToggledEvery(imgs, imageId) ==
    [i \in 1..Len(imgs) |->
        [f \in (DOMAIN imgs[i]) \cup {"isFavorite"} |->
            IF f = "isFavorite" THEN ~Truthy(imgs[i], "isFavorite")
                                ELSE imgs[i][f]]]

\* images.map(img => img.id === imageId ? {...img, isFavorite: !img.isFavorite} : img)
ToggledImages(imgs, imageId) ==
    [i \in 1..Len(imgs) |->
        IF Get(imgs[i], "id") = imageId
            THEN [f \in (DOMAIN imgs[i]) \cup {"isFavorite"} |->
                    IF f = "isFavorite"
                        THEN ~Truthy(imgs[i], "isFavorite")
                        ELSE imgs[i][f]]
            ELSE imgs[i]]

\* only the first record with the id is removed
RECURSIVE RemoveFirstMatch(_, _)
RemoveFirstMatch(imgs, imageId) ==
    IF imgs = <<>> THEN <<>>
    ELSE IF Get(Head(imgs), "id") = imageId THEN Tail(imgs)
    ELSE <<Head(imgs)>> \o RemoveFirstMatch(Tail(imgs), imageId)

\* images.filter(img => img.id !== imageId)
RemainingImages(imgs, imageId) ==
    SelectSeq(imgs, LAMBDA img : Get(img, "id") # imageId)

ToggleFavorite(imageId) ==
    /\ galleryPc = "ready"
    /\ SaveImages(ToggledImages(images, imageId), "Favorite updated")
    /\ lastOp' = "toggleFavorite"
    /\ lastArg' = imageId
    /\ UNCHANGED <<appVars, galleryPc, isLoading, queryVars, toolVars>>

DeleteImage(imageId) ==
    /\ galleryPc = "ready"
    /\ SaveImages(RemainingImages(images, imageId), "Image deleted")
    /\ lastOp' = "deleteImage"
    /\ lastArg' = imageId
    /\ UNCHANGED <<appVars, galleryPc, isLoading, queryVars, toolVars>>

\* onChange={(e) => setSearchQuery(e.target.value)}
SetSearchQuery(q) ==
    /\ galleryPc = "ready"
    /\ q # searchQuery
    /\ searchQuery' = q
    /\ filteredImages' \in FilterAndSortImages(images, q, filterType, sortBy)
    /\ Observe("setSearchQuery", "none", FALSE, "none")
    /\ UNCHANGED <<appVars, storeVars, galleryPc, images, isLoading, filterType,
                   sortBy, toolVars>>

\* onValueChange={setFilterType}
SetFilterType(t) ==
    /\ galleryPc = "ready"
    /\ t # filterType
    /\ filterType' = t
    /\ filteredImages' \in FilterAndSortImages(images, searchQuery, t, sortBy)
    /\ Observe("setFilterType", t, FALSE, "none")
    /\ UNCHANGED <<appVars, storeVars, galleryPc, images, isLoading, searchQuery,
                   sortBy, toolVars>>

\* setSortBy with the sort applied to `images` itself instead of to a copy
SetSortByInPlace(key) ==
    /\ galleryPc = "ready"
    /\ key # sortBy
    /\ sortBy' = key
    /\ images' \in SortOutcomes(images, key)
    /\ filteredImages' \in FilterAndSortImages(images', searchQuery, filterType, key)
    /\ Observe("setSortBy", key, FALSE, "none")
    /\ UNCHANGED <<appVars, storeVars, galleryPc, isLoading, searchQuery,
                   filterType, toolVars>>

\* onValueChange={setSortBy}
SetSortBy(key) ==
    /\ galleryPc = "ready"
    /\ key # sortBy
    /\ sortBy' = key
    /\ filteredImages' \in FilterAndSortImages(images, searchQuery, filterType, key)
    /\ Observe("setSortBy", key, FALSE, "none")
    /\ UNCHANGED <<appVars, storeVars, galleryPc, images, isLoading, searchQuery,
                   filterType, toolVars>>

---------------------------------------------------------------------------
(* ImageGenerator *)

\* onChange={(e) => setPrompt(e.target.value)}
SetPrompt(p) ==
    /\ Mounted("generator")
    /\ p # genPrompt
    /\ genPrompt' = p
    /\ Observe("setPrompt", "none", FALSE, "none")
    /\ UNCHANGED <<appVars, storeVars, galleryVars, genNumImages,
                   isGenerating, genProgress, generatedImages, genCall,
                   genStrayTimers, genOrphans, upVars, batchVars>>

\* onValueChange={(value) => setNumImages(parseInt(value))}
SetNumImages(n) ==
    /\ Mounted("generator")
    /\ n # genNumImages
    /\ genNumImages' = n
    /\ Observe("setNumImages", "none", FALSE, "none")
    /\ UNCHANGED <<appVars, storeVars, galleryVars, genPrompt,
                   isGenerating, genProgress, generatedImages, genCall,
                   genStrayTimers, genOrphans, upVars, batchVars>>

\* A click on the Generate button (disabled={isGenerating || !prompt.trim()}):
\* handleGenerate up to its await.
HandleGenerate ==
    /\ Mounted("generator")
    /\ ~(isGenerating \/ Trim(genPrompt) = <<>>)
    /\ Len(generatedImages) + genNumImages <= MaxResults
    /\ genStrayTimers < MaxStray
    /\ IF Trim(genPrompt) = <<>>
          THEN /\ Observe("handleGenerate", "none", FALSE, "Prompt required")
               /\ UNCHANGED <<isGenerating, genProgress, genCall>>
          ELSE /\ isGenerating' = TRUE
               /\ genProgress' = 0
               /\ genCall' = [pc |-> "awaiting", prompt |-> genPrompt,
                              n |-> genNumImages, timer |-> TRUE]
               /\ Observe("handleGenerate", "none", FALSE, "none")
    /\ UNCHANGED <<appVars, storeVars, galleryVars, genPrompt,
                   genNumImages, generatedImages, genStrayTimers, genOrphans, upVars, batchVars>>

\* setProgress(prev => ...) of the interval callback
NextProgress(prev) == IF prev >= 90 THEN 90 ELSE prev + 10

\* the interval of the call that is awaiting the service fires
ProgressTick ==
    /\ Mounted("generator")
    /\ genCall.pc = "awaiting"
    /\ genCall.timer
    /\ genProgress' = NextProgress(genProgress)
    /\ genCall' = [genCall EXCEPT !.timer = ~(genProgress >= 90)]
    /\ UNCHANGED <<appVars, storeVars, galleryVars, obsVars, genPrompt,
                   genNumImages, isGenerating, generatedImages, genStrayTimers,
                   genOrphans, upVars, batchVars>>

\* an interval left behind by a call that has ended fires
StrayTick ==
    /\ Mounted("generator")
    /\ genStrayTimers > 0
    /\ genProgress' = NextProgress(genProgress)
    /\ genStrayTimers' = IF genProgress >= 90 THEN genStrayTimers - 1
                                               ELSE genStrayTimers
    /\ UNCHANGED <<appVars, storeVars, galleryVars, obsVars, genPrompt,
                   genNumImages, isGenerating, generatedImages, genCall,
                   genOrphans, upVars, batchVars>>

\* data.map((img, index) => ({ ..., url: img.url, prompt, ... })); the id and
\* createdAt read from the clock and the size, quality and style settings
\* are left out
NewImages(data, call) ==
    [i \in 1..Len(data) |-> [url |-> data[i], prompt |-> call.prompt]]

\* blink.ai.generateImage resolves with `data`: handleGenerate after its await
GenerateResolved ==
    /\ Mounted("generator")
    /\ genCall.pc = "awaiting"
    /\ \E data \in [1..genCall.n -> RemoteUrls] :
        generatedImages' = NewImages(data, genCall) \o generatedImages
    /\ genCall' = NoCall
    /\ isGenerating' = FALSE
    /\ genProgress' = 0
    /\ Observe("generateResolved", "none", FALSE, "Images generated successfully!")
    /\ UNCHANGED <<appVars, storeVars, galleryVars, genPrompt, genNumImages,
                   genStrayTimers, genOrphans, upVars, batchVars>>

\* blink.ai.generateImage rejects: the catch and finally blocks; the
\* clearInterval after the await is skipped
GenerateRejected ==
    /\ Mounted("generator")
    /\ genCall.pc = "awaiting"
    /\ genStrayTimers' = IF genCall.timer THEN genStrayTimers + 1
                                          ELSE genStrayTimers
    /\ genCall' = NoCall
    /\ isGenerating' = FALSE
    /\ genProgress' = 0
    /\ Observe("generateRejected", "none", FALSE, "Generation failed")
    /\ UNCHANGED <<appVars, storeVars, galleryVars, genPrompt,
                   genNumImages, generatedImages, genOrphans, upVars, batchVars>>

\* the service answers a call whose component has been unmounted: its state
\* updates are dropped, its toast is shown
OrphanResolved ==
    /\ genOrphans > 0
    /\ genOrphans' = genOrphans - 1
    /\ Observe("generateResolved", "none", FALSE, "Images generated successfully!")
    /\ UNCHANGED <<appVars, storeVars, galleryVars, genPrompt, genNumImages,
                   isGenerating, genProgress, generatedImages, genCall,
                   genStrayTimers, upVars, batchVars>>

OrphanRejected ==
    /\ genOrphans > 0
    /\ genOrphans' = genOrphans - 1
    /\ Observe("generateRejected", "none", FALSE, "Generation failed")
    /\ UNCHANGED <<appVars, storeVars, galleryVars, genPrompt, genNumImages,
                   isGenerating, genProgress, generatedImages, genCall,
                   genStrayTimers, upVars, batchVars>>

---------------------------------------------------------------------------
(* UnblurTool, UpscalerTool and BackgroundRemover.  The three components hold
   the same state and only one of them is mounted at a time: selectedFile,
   previewUrl, isProcessing and upProgress are the state of the one that is
   mounted, upscaledImages is its results list (processedImages in UnblurTool
   and BackgroundRemover), upCall its processImage or upscaleImage call. *)

FileTools == {"unblur", "upscaler", "background-remover"}

FileToolMounted == \E t \in FileTools : Mounted(t)

\* the title of the toast in the catch block of the tool
FailureToast(t) ==
    CASE t = "unblur" -> "Enhancement failed"
      [] t = "upscaler" -> "Upscaling failed"
      [] t = "background-remover" -> "Processing failed"

\* the title of the toast after the result has been stored
SuccessToast(t) ==
    CASE t = "unblur" -> "Image enhanced successfully!"
      [] t = "upscaler" -> "Image upscaled successfully!"
      [] t = "background-remover" -> "Background processed successfully!"

\* onChange={handleFileSelect} with the file the user picked
HandleFileSelect(file) ==
    /\ FileToolMounted
    /\ IF ~file.image
          THEN /\ Observe("handleFileSelect", file.name, FALSE, "Invalid file type")
               /\ UNCHANGED <<selectedFile, previewUrl>>
          ELSE IF file.big
          THEN /\ Observe("handleFileSelect", file.name, FALSE, "File too large")
               /\ UNCHANGED <<selectedFile, previewUrl>>
          ELSE /\ selectedFile' = file
               /\ previewUrl' = file.name
               /\ Observe("handleFileSelect", file.name, FALSE, "none")
    /\ UNCHANGED <<appVars, storeVars, galleryVars, genVars, batchVars,
                   isProcessing, upProgress, upscaledImages, upCall, upOrphans>>

\* onDrop={handleDrop} with the first dropped file
HandleDrop(file) ==
    /\ FileToolMounted
    /\ IF file.image
          THEN /\ selectedFile' = file
               /\ previewUrl' = file.name
          ELSE UNCHANGED <<selectedFile, previewUrl>>
    /\ Observe("handleDrop", file.name, FALSE, "none")
    /\ UNCHANGED <<appVars, storeVars, galleryVars, genVars, batchVars,
                   isProcessing, upProgress, upscaledImages, upCall, upOrphans>>

\* A click on the Upscale button (disabled={!selectedFile || isProcessing}):
\* upscaleImage up to its first await
UpscaleImage ==
    /\ Mounted("upscaler")
    /\ ~(selectedFile = NoFile \/ isProcessing)
    /\ Len(upscaledImages) < MaxResults
    /\ isProcessing' = TRUE
    /\ upProgress' = 0
    /\ upCall' = [pc |-> "dimensions", file |-> selectedFile, tool |-> activeTool]
    /\ Observe("upscaleImage", selectedFile.name, FALSE, "none")
    /\ UNCHANGED <<appVars, storeVars, galleryVars, genVars, batchVars,
                   selectedFile, previewUrl, upscaledImages, upOrphans>>

\* A click on the Enhance Image or Remove Background button
\* (disabled={!selectedFile || isProcessing}): processImage up to its first
\* await, the upload
ProcessImage ==
    /\ Mounted("unblur") \/ Mounted("background-remover")
    /\ ~(selectedFile = NoFile \/ isProcessing)
    /\ Len(upscaledImages) < MaxResults
    /\ isProcessing' = TRUE
    /\ upProgress' = 0
    /\ upCall' = [pc |-> "uploading", file |-> selectedFile, tool |-> activeTool]
    /\ Observe("processImage", selectedFile.name, FALSE, "none")
    /\ UNCHANGED <<appVars, storeVars, galleryVars, genVars, batchVars,
                   selectedFile, previewUrl, upscaledImages, upOrphans>>

\* img.onload of getImageDimensions fires: upscaleImage goes on to the upload.
\* For a file that does not decode, onload never fires and the promise never
\* settles.
DimensionsLoaded ==
    /\ Mounted("upscaler")
    /\ upCall.pc = "dimensions"
    /\ upCall.file.decodable
    /\ upCall' = [upCall EXCEPT !.pc = "uploading"]
    /\ UNCHANGED <<appVars, storeVars, galleryVars, obsVars, genVars, batchVars,
                   selectedFile, previewUrl, isProcessing, upProgress,
                   upscaledImages, upOrphans>>

\* blink.storage.upload resolves: setProgress(30), then modifyImage is called
UploadResolved ==
    /\ FileToolMounted
    /\ upCall.pc = "uploading"
    /\ upProgress' = 30
    /\ upCall' = [upCall EXCEPT !.pc = "modifying"]
    /\ UNCHANGED <<appVars, storeVars, galleryVars, obsVars, genVars, batchVars,
                   selectedFile, previewUrl, isProcessing, upscaledImages,
                   upOrphans>>

\* a failure that keeps the list and clears the selection
UpscaleRejectedClearsSelection ==
    /\ FileToolMounted
    /\ upCall.pc \in {"uploading", "modifying"}
    /\ selectedFile' = NoFile
    /\ previewUrl' = ""
    /\ isProcessing' = FALSE
    /\ upProgress' = 0
    /\ upCall' = NoCall
    /\ Observe("upscaleRejected", upCall.file.name, FALSE, FailureToast(upCall.tool))
    /\ UNCHANGED <<appVars, storeVars, galleryVars, genVars, batchVars,
                   upscaledImages, upOrphans>>

\* blink.storage.upload or blink.ai.modifyImage rejects, or modifyImage
\* resolves without an image and data[0].url throws: catch and finally
UpscaleRejected ==
    /\ FileToolMounted
    /\ upCall.pc \in {"uploading", "modifying"}
    /\ isProcessing' = FALSE
    /\ upProgress' = 0
    /\ upCall' = NoCall
    /\ Observe("upscaleRejected", upCall.file.name, FALSE, FailureToast(upCall.tool))
    /\ UNCHANGED <<appVars, storeVars, galleryVars, genVars, batchVars,
                   selectedFile, previewUrl, upscaledImages, upOrphans>>

\* blink.ai.modifyImage resolves with one image: the rest of upscaleImage or
\* processImage.  The result takes the file of the call (the selectedFile of
\* the closure); upscaledUrl stands for enhancedUrl and processedUrl too.
ModifyResolved ==
    /\ FileToolMounted
    /\ upCall.pc = "modifying"
    /\ \E url \in FileUrls :
        upscaledImages' =
            <<[originalUrl |-> upCall.file.name, upscaledUrl |-> url,
               filename |-> upCall.file.name]>> \o upscaledImages
    /\ selectedFile' = NoFile
    /\ previewUrl' = ""
    /\ isProcessing' = FALSE
    /\ upProgress' = 0
    /\ upCall' = NoCall
    /\ Observe("upscaleResolved", upCall.file.name, FALSE, SuccessToast(upCall.tool))
    /\ UNCHANGED <<appVars, storeVars, galleryVars, genVars, batchVars, upOrphans>>

\* a call whose component has been unmounted goes on (upOrphans holds the
\* tool of each such call that settles): its state updates are dropped, its
\* remote calls and its final toast are not
UpOrphanStep ==
    /\ upOrphans # <<>>
    /\ upOrphans' = Tail(upOrphans)
    /\ \/ Observe("upscaleRejected", "none", FALSE, FailureToast(Head(upOrphans)))
       \/ Observe("upscaleResolved", "none", FALSE, SuccessToast(Head(upOrphans)))
    /\ UNCHANGED <<appVars, storeVars, galleryVars, genVars, batchVars, selectedFile,
                   previewUrl, isProcessing, upProgress, upscaledImages, upCall>>

---------------------------------------------------------------------------
(* BatchGenerator *)

\* onChange={(e) => setBasePrompt(e.target.value)}
SetBasePrompt(p) ==
    /\ Mounted("batch")
    /\ p # basePrompt
    /\ basePrompt' = p
    /\ Observe("setBasePrompt", "none", FALSE, "none")
    /\ UNCHANGED <<appVars, storeVars, galleryVars, genVars, upVars, variations,
                   batchGenerating, batchProgress, batchJobs, batchCall,
                   batchRequests, batchOrphans>>

\* addVariation without the check of the length
AddVariationUnchecked ==
    /\ Mounted("batch")
    /\ variations' = Append(variations, EmptyString)
    /\ Observe("addVariation", "none", FALSE, "none")
    /\ UNCHANGED <<appVars, storeVars, galleryVars, genVars, upVars, basePrompt,
                   batchGenerating, batchProgress, batchJobs, batchCall,
                   batchRequests, batchOrphans>>

\* addVariation
AddVariation ==
    /\ Mounted("batch")
    /\ variations' = IF Len(variations) < 10
                        THEN Append(variations, EmptyString)
                        ELSE variations
    /\ Observe("addVariation", "none", FALSE, "none")
    /\ UNCHANGED <<appVars, storeVars, galleryVars, genVars, upVars, basePrompt,
                   batchGenerating, batchProgress, batchJobs, batchCall,
                   batchRequests, batchOrphans>>

\* variations.filter((_, i) => i !== index), index counted from 1
WithoutIndex(vs, index) ==
    [i \in 1..(Len(vs) - 1) |-> IF i < index THEN vs[i] ELSE vs[i + 1]]

\* removeVariation(index)
RemoveVariation(index) ==
    /\ Mounted("batch")
    /\ index \in 1..Len(variations)
    /\ variations' = IF Len(variations) > 1
                        THEN WithoutIndex(variations, index)
                        ELSE variations
    /\ Observe("removeVariation", "none", FALSE, "none")
    /\ UNCHANGED <<appVars, storeVars, galleryVars, genVars, upVars, basePrompt,
                   batchGenerating, batchProgress, batchJobs, batchCall,
                   batchRequests, batchOrphans>>

\* updateVariation(index, value)
UpdateVariation(index, value) ==
    /\ Mounted("batch")
    /\ index \in 1..Len(variations)
    /\ value # variations[index]
    /\ variations' = [variations EXCEPT ![index] = value]
    /\ Observe("updateVariation", "none", FALSE, "none")
    /\ UNCHANGED <<appVars, storeVars, galleryVars, genVars, upVars, basePrompt,
                   batchGenerating, batchProgress, batchJobs, batchCall,
                   batchRequests, batchOrphans>>

\* variations.filter(v => v.trim())
ValidVariations(vs) == SelectSeq(vs, LAMBDA v : Trim(v) # <<>>)

\* .replace(/,\s*,/g, ',')
RECURSIVE ReplaceCommaRuns(_)
ReplaceCommaRuns(s) ==
    IF s = <<>> THEN <<>>
    ELSE IF Head(s) = "," /\ TrimStart(Tail(s)) # <<>>
                          /\ Head(TrimStart(Tail(s))) = ","
        THEN <<",">> \o ReplaceCommaRuns(Tail(TrimStart(Tail(s))))
    ELSE <<Head(s)>> \o ReplaceCommaRuns(Tail(s))

\* `${basePrompt}, ${variation}`.trim().replace(/,\s*,/g, ',')
FullPrompt(base, variation) ==
    ReplaceCommaRuns(Trim(base \o <<",", " ">> \o variation))

\* newJob with status 'completed' from the start
NewJobCompleted(jobId, base, valid) ==
    [id |-> jobId, basePrompt |-> base, variations |-> valid, images |-> <<>>,
     status |-> "completed"]

\* newJob; the size, quality and style settings and createdAt are left out
NewJob(jobId, base, valid) ==
    [id |-> jobId, basePrompt |-> base, variations |-> valid, images |-> <<>>,
     status |-> "generating"]

\* prev.map(job => job.id === jobId ? { ...job, images: [...generatedImages] } : job)
SetJobImages(jobs, jobId, imgs) ==
    [n \in 1..Len(jobs) |->
        IF jobs[n].id = jobId THEN [jobs[n] EXCEPT !.images = imgs] ELSE jobs[n]]

\* prev.map(job => job.id === jobId ? { ...job, status } : job)
SetJobStatus(jobs, jobId, status) ==
    [n \in 1..Len(jobs) |->
        IF jobs[n].id = jobId THEN [jobs[n] EXCEPT !.status = status] ELSE jobs[n]]

\* A click on the Generate Batch button (disabled={isGenerating ||
\* !basePrompt.trim() || no variation with text}): generateBatch up to its
\* first await.  jobId is `batch-${Date.now()}`; it is taken as the number of
\* the job, the clock having advanced since the job before.
GenerateBatch ==
    /\ Mounted("batch")
    /\ ~(batchGenerating \/ Trim(basePrompt) = <<>>
            \/ ValidVariations(variations) = <<>>)
    /\ LET valid == ValidVariations(variations)
           jobId == Len(batchJobs) + 1
       IN  /\ batchJobs' = <<NewJob(jobId, basePrompt, valid)>> \o batchJobs
           /\ batchCall' = [pc |-> "awaiting", jobId |-> jobId,
                            basePrompt |-> basePrompt, validVariations |-> valid,
                            i |-> 0, generatedImages |-> <<>>]
           /\ batchRequests' = <<FullPrompt(basePrompt, valid[1])>>
    /\ batchGenerating' = TRUE
    /\ batchProgress' = NoProgress
    /\ Observe("generateBatch", "none", FALSE, "none")
    /\ UNCHANGED <<appVars, storeVars, galleryVars, genVars, upVars, basePrompt,
                   variations, batchOrphans>>

\* generateBatch from the end of one pass of its loop to the next await, or
\* to its end: `imgs` is generatedImages, `jobs` and `progress` are batchJobs
\* and progress as the pass has left them
BatchContinue(imgs, jobs, progress, op) ==
    IF batchCall.i + 1 < Len(batchCall.validVariations)
        THEN /\ batchCall' = [batchCall EXCEPT !.i = @ + 1, !.generatedImages = imgs]
             /\ batchRequests' =
                    Append(batchRequests,
                           FullPrompt(batchCall.basePrompt,
                                      batchCall.validVariations[batchCall.i + 2]))
             /\ batchJobs' = jobs
             /\ batchProgress' = progress
             /\ UNCHANGED batchGenerating
             /\ Observe(op, "none", FALSE, "none")
        ELSE /\ batchCall' = NoCall
             /\ UNCHANGED batchRequests
             /\ batchJobs' = SetJobStatus(jobs, batchCall.jobId, "completed")
             /\ batchProgress' = NoProgress
             /\ batchGenerating' = FALSE
             /\ Observe(op, "none", FALSE, "Batch generation completed!")

\* blink.ai.generateImage resolves with an image: the rest of the pass
BatchCallResolved ==
    /\ Mounted("batch")
    /\ batchCall.pc = "awaiting"
    /\ \E url \in BatchUrls :
        LET i    == batchCall.i
            imgs == Append(batchCall.generatedImages,
                           [url |-> url,
                            prompt |-> FullPrompt(batchCall.basePrompt,
                                                  batchCall.validVariations[i + 1]),
                            variation |-> i + 1])
        IN  BatchContinue(imgs,
                          SetJobImages(batchJobs, batchCall.jobId, imgs),
                          [done |-> i + 1, total |-> Len(batchCall.validVariations)],
                          "batchCallResolved")
    /\ UNCHANGED <<appVars, storeVars, galleryVars, genVars, upVars, basePrompt,
                   variations, batchOrphans>>

\* a failed call is made again
BatchCallRejectedRetried ==
    /\ Mounted("batch")
    /\ batchCall.pc = "awaiting"
    /\ batchRequests' = Append(batchRequests, batchRequests[Len(batchRequests)])
    /\ Observe("batchCallRejected", "none", FALSE, "none")
    /\ UNCHANGED <<appVars, storeVars, galleryVars, genVars, upVars, basePrompt,
                   variations, batchGenerating, batchProgress, batchJobs,
                   batchCall, batchOrphans>>

\* a failed call ends the loop in the outer catch block
BatchCallRejectedAborts ==
    /\ Mounted("batch")
    /\ batchCall.pc = "awaiting"
    /\ batchCall' = NoCall
    /\ batchJobs' = SetJobStatus(batchJobs, batchCall.jobId, "failed")
    /\ batchProgress' = NoProgress
    /\ batchGenerating' = FALSE
    /\ Observe("batchCallRejected", "none", FALSE, "Batch generation failed")
    /\ UNCHANGED <<appVars, storeVars, galleryVars, genVars, upVars, basePrompt,
                   variations, batchRequests, batchOrphans>>

\* blink.ai.generateImage rejects, or resolves with no image so that
\* data[0].url throws: the inner catch block, then the rest of the pass
BatchCallRejected ==
    /\ Mounted("batch")
    /\ batchCall.pc = "awaiting"
    /\ BatchContinue(batchCall.generatedImages, batchJobs, batchProgress,
                     "batchCallRejected")
    /\ UNCHANGED <<appVars, storeVars, galleryVars, genVars, upVars, basePrompt,
                   variations, batchOrphans>>

\* a generateBatch whose component has been unmounted goes on: the call in
\* flight settles and the next is made, or the loop ends; its state updates
\* are dropped, its toast is shown
BatchOrphanStep ==
    /\ batchOrphans # <<>>
    /\ IF Head(batchOrphans) > 1
          THEN /\ batchOrphans' = <<Head(batchOrphans) - 1>> \o Tail(batchOrphans)
               /\ UNCHANGED obsVars
          ELSE /\ batchOrphans' = Tail(batchOrphans)
               /\ Observe("batchCallSettled", "none", FALSE,
                          "Batch generation completed!")
    /\ UNCHANGED <<appVars, storeVars, galleryVars, genVars, upVars, basePrompt,
                   variations, batchGenerating, batchProgress, batchJobs,
                   batchCall, batchRequests>>

---------------------------------------------------------------------------
(* Specification of the Gallery and its store *)

Next ==
    \/ \E t \in Tools : SetActiveTool(t)
    \/ LoadImages
    \/ \E id \in IdArgs(images) : ToggleFavorite(id)
    \/ \E id \in IdArgs(images) : DeleteImage(id)

Spec == Init /\ [][Next]_vars

---------------------------------------------------------------------------
(* Specification of the Gallery with its search, filter and sort controls *)

SearchTexts == {<<>>, <<" ">>, <<"A", "T">>, <<"O", "C">>}
FilterTypes == {"all", "upscaled", "batch"}
SortKeys    == {"newest", "oldest", "favorites"}

NextQuery ==
    \/ Next
    \/ \E q \in SearchTexts : SetSearchQuery(q)
    \/ \E t \in FilterTypes : SetFilterType(t)
    \/ \E key \in SortKeys : SetSortBy(key)

\* the store holds well-formed records
QueryRecords == {RecCat, RecDog, RecDup}

InitQuery ==
    /\ InitFrom({ArrayBlob(r) : r \in SeqsUpTo(QueryRecords, MaxStored)})
    /\ AppSignedIn
    /\ ~storageDisabled

SpecQuery == InitQuery /\ [][NextQuery]_vars

---------------------------------------------------------------------------
(* Specification of the tools, started with a store that holds nothing or
   one record *)

InitTools ==
    /\ Init
    /\ ~storageDisabled
    /\ localStorage \in {Absent, ArrayBlob(<<RecCat>>)}

NextGenerator ==
    \/ Next
    \/ \E p \in Prompts : SetPrompt(p)
    \/ \E n \in 1..MaxCount : SetNumImages(n)
    \/ HandleGenerate
    \/ ProgressTick
    \/ StrayTick
    \/ GenerateResolved
    \/ GenerateRejected
    \/ OrphanResolved
    \/ OrphanRejected

SpecGenerator == InitTools /\ [][NextGenerator]_vars

NextFileTools ==
    \/ \E t \in FileTools \cup {"gallery"} : SetActiveTool(t)
    \/ \E f \in Files : HandleFileSelect(f)
    \/ \E f \in Files : HandleDrop(f)
    \/ UpscaleImage
    \/ ProcessImage
    \/ DimensionsLoaded
    \/ UploadResolved
    \/ UpscaleRejected
    \/ ModifyResolved
    \/ UpOrphanStep

InitFileTools ==
    /\ InitFrom({Absent})
    /\ AppSignedIn
    /\ ~storageDisabled

SpecFileTools == InitFileTools /\ [][NextFileTools]_vars

\* Every awaited step of a call in progress is eventually taken when it can
\* be: the remote calls are assumed to succeed or fail in the end, and the
\* browser delivers the load event of an image that decodes.
UpscaleSettles ==
    \/ DimensionsLoaded
    \/ UploadResolved
    \/ UpscaleRejected
    \/ ModifyResolved

SpecFileToolsFair == SpecFileTools /\ WF_vars(UpscaleSettles)

\* the number of images the jobs were started for
RECURSIVE Requested(_)
Requested(jobs) ==
    IF jobs = <<>> THEN 0 ELSE Len(Head(jobs).variations) + Requested(Tail(jobs))

NextBatch ==
    \/ \E t \in {"batch", "gallery"} : SetActiveTool(t)
    \/ \E p \in BasePrompts : SetBasePrompt(p)
    \/ Len(variations) < MaxVariations /\ AddVariation
    \/ \E index \in 1..MaxVariations : RemoveVariation(index)
    \/ \E index \in 1..MaxVariations, value \in VariationTexts :
            UpdateVariation(index, value)
    \/ Requested(batchJobs) + Len(ValidVariations(variations)) <= MaxResults
            /\ GenerateBatch
    \/ BatchCallResolved
    \/ BatchCallRejected
    \/ BatchOrphanStep

\* the store is empty and stays so
InitBatch ==
    /\ InitFrom({Absent})
    /\ AppSignedIn
    /\ ~storageDisabled

SpecBatch == InitBatch /\ [][NextBatch]_vars

---------------------------------------------------------------------------
(* Specification of App from its first render, with the auth state changing
   under the Gallery and the ImageGenerator *)

AuthUsers == Users \cup {NoUser}

NextAuth ==
    \/ \E u \in AuthUsers, l \in BOOLEAN : AuthStateChanged(u, l)
    \/ NextGenerator

InitAuth ==
    /\ InitFrom({Absent, ArrayBlob(<<RecCat>>)})
    /\ AppStarted
    /\ ~storageDisabled

SpecAuth == InitAuth /\ [][NextAuth]_vars

---------------------------------------------------------------------------
(* Specification of the variation fields of the BatchGenerator, up to the
   ten fields it allows *)

FewTexts == {EmptyString, <<"a">>}

NextVariations ==
    \/ \E t \in {"batch", "gallery"} : SetActiveTool(t)
    \/ AddVariation
    \/ \E index \in 1..10 : RemoveVariation(index)
    \/ \E index \in 1..10, value \in FewTexts : UpdateVariation(index, value)

SpecVariations == InitBatch /\ [][NextVariations]_vars

---------------------------------------------------------------------------
(* Properties of the Gallery *)

HasId(imgs, imageId) == \E i \in 1..Len(imgs) : Get(imgs[i], "id") = imageId

MutatingOps == {"toggleFavorite", "deleteImage"}

\* C1: once the Gallery has loaded, the value stored under 'gallery-images'
\* deserialises (as loadImages does it) to exactly the in-memory images.
C1_WriteThroughConsistent ==
    galleryPc = "ready" => LoadResult(localStorage).value = images

\* C2: when localStorage.setItem throws in toggleFavorite or deleteImage, the
\* handler throws to its caller, reports no success, and leaves the in-memory
\* collection and the store as they were.
C2_WriteFailureSurfaced ==
    [][(lastOp' \in MutatingOps /\ setItemFailed')
        => /\ lastThrew'
           /\ lastToast' = "none"
           /\ images' = images
           /\ localStorage' = localStorage]_vars

\* C2 witness: a toggle that would have changed a record, and whose write threw.
C2_Witness ==
    /\ lastOp = "toggleFavorite"
    /\ setItemFailed
    /\ ~storageDisabled
    /\ HasId(images, lastArg)
    /\ images = imagesBefore

\* C3: toggleFavorite and deleteImage each call setItem exactly once, with the
\* whole updated collection: every record for a toggle, every record but the
\* deleted ones for a delete; when the call succeeds, the store holds that
\* value and it is the serialisation of the new in-memory collection.
C3_OneFullWrite ==
    [][lastOp' \in MutatingOps
        => /\ Len(setItemCalls') = 1
           /\ setItemCalls'[1].kind = "array"
           /\ Len(setItemCalls'[1].items) =
                IF lastOp' = "toggleFavorite"
                    THEN Len(images)
                    ELSE Cardinality({i \in 1..Len(images) :
                                        Get(images[i], "id") # lastArg'})
           /\ ~setItemFailed' =>
                /\ localStorage' = setItemCalls'[1]
                /\ setItemCalls'[1] = JSONStringify(images')]_vars

\* C3 witness: a successful toggle of one record of a two-record collection.
C3_Witness ==
    /\ lastOp = "toggleFavorite"
    /\ ~setItemFailed
    /\ Len(images) = 2
    /\ HasId(images, lastArg)
    /\ images # imagesBefore

\* C4: loadImages always takes the Gallery from isLoading to loaded and never
\* throws to its caller; with an absent, empty, unparseable or non-array
\* payload (or storage disabled) the collection is empty.
C4_LoadDegradesToEmpty ==
    [][lastOp' = "loadImages"
        => /\ isLoading /\ ~isLoading'
           /\ galleryPc' = "ready"
           /\ ~lastThrew'
           /\ (storageDisabled \/ localStorage.kind # "array") => images' = <<>>]_vars

\* C4 witness: the Gallery loaded from an unparseable payload.
C4_Witness ==
    /\ lastOp = "loadImages"
    /\ localStorage = Unparseable
    /\ ~isLoading
    /\ images = <<>>

\* C5: toggleFavorite(id) with an id that matches no record fails (throws to
\* the caller) and reports no success.
C5_ToggleAbsentFails ==
    (lastOp = "toggleFavorite" /\ ~HasId(imagesBefore, lastArg))
        => (lastThrew /\ lastToast # "Favorite updated")

\* C6: no two records of the in-memory collection share an id.
C6_UniqueIds ==
    \A i, j \in 1..Len(images) :
        i # j => Get(images[i], "id") # Get(images[j], "id")

\* C7: every record of the in-memory collection has a type in the closed set.
C7_TypeInClosedSet ==
    \A i \in 1..Len(images) : Get(images[i], "type") \in GalleryTypes

\* the schema of a stored record
ValidStored(v) ==
    /\ v # JsonNull
    /\ {"id", "url", "prompt", "type", "createdAt", "isFavorite"} \subseteq DOMAIN v
    /\ v.type \in GalleryTypes
    /\ v.createdAt.k = "iso"

\* C8: loading an array payload yields exactly its schema-conforming records,
\* in order: the violating ones are dropped, the others are loaded.
C8_LoadDropsOnlyBadRecords ==
    (lastOp = "loadImages" /\ ~storageDisabled /\ localStorage.kind = "array")
        => LET good == SelectSeq(localStorage.items, ValidStored)
           IN  images = [i \in 1..Len(good) |-> ReviveImage(good[i])]

\* C10: a deleteImage(id) whose write succeeds removes exactly the records
\* whose id is id, keeps the others in order and does not throw; if no record
\* has that id the collection is unchanged; repeating the same delete changes
\* nothing.  A delete whose write fails changes nothing (C2).
C10_DeleteRemovesMatching ==
    [][lastOp' = "deleteImage"
        => /\ ~setItemFailed' =>
                /\ ~lastThrew'
                /\ images' = SelectSeq(images, LAMBDA img : Get(img, "id") # lastArg')
                /\ ~HasId(images, lastArg') => images' = images
                /\ (lastOp = "deleteImage" /\ lastArg = lastArg' /\ ~setItemFailed)
                        => images' = images
           /\ setItemFailed' => images' = images]_vars

StoredUrls(blob) ==
    IF blob.kind = "array"
        THEN {Get(blob.items[i], "url") : i \in 1..Len(blob.items)}
        ELSE {}

\* C9: when a generation completes successfully, a record for every image it
\* produced is in the collection persisted under 'gallery-images'.
C9_ProducedImagesPersisted ==
    [][(lastOp' = "generateResolved" /\ Len(generatedImages') > Len(generatedImages))
        => \A i \in 1..(Len(generatedImages') - Len(generatedImages)) :
                generatedImages'[i].url \in StoredUrls(localStorage')]_vars

\* C10 witness: a delete that removed a record and kept another.
C10_Witness ==
    /\ lastOp = "deleteImage"
    /\ ~setItemFailed
    /\ Len(imagesBefore) = 2
    /\ Len(images) = 1

\* C11: two successful toggleFavorite(id) in succession, for an id that a
\* record has, leave the in-memory collection as it was before the first one,
\* and the stored collection (as loadImages reads it) equal to it.
C11_ToggleTwiceRestores ==
    [][(/\ lastOp = "toggleFavorite" /\ ~setItemFailed
        /\ HasId(imagesBefore, lastArg)
        /\ lastOp' = "toggleFavorite" /\ ~setItemFailed'
        /\ lastArg' = lastArg)
        => /\ images' = imagesBefore
           /\ LoadResult(localStorage').value = imagesBefore]_vars

\* the properties of a record other than isFavorite
OtherFields(img) == (DOMAIN img) \ {"isFavorite"}

\* C12: toggleFavorite(id) keeps the number and the order of the in-memory
\* records, keeps every property other than isFavorite of every record, and
\* keeps the records whose id is not id as they are; while the Gallery is
\* shown, the collection loses records only in deleteImage(id), and then only
\* records whose id is id.
C12_ToggleChangesOnlyFavorite ==
    [][/\ lastOp' = "toggleFavorite"
            => /\ Len(images') = Len(images)
               /\ \A i \in 1..Len(images) :
                    /\ OtherFields(images'[i]) = OtherFields(images[i])
                    /\ \A f \in OtherFields(images[i]) :
                            images'[i][f] = images[i][f]
                    /\ Get(images[i], "id") # lastArg' => images'[i] = images[i]
       /\ (galleryPc = "ready" /\ galleryPc' = "ready"
                /\ \E i \in 1..Len(images) :
                        \A j \in 1..Len(images') :
                            OtherFields(images'[j]) # OtherFields(images[i])
                            \/ \E f \in OtherFields(images[i]) :
                                    images'[j][f] # images[i][f])
            => /\ lastOp' = "deleteImage"
               /\ \A i \in 1..Len(images) :
                    Get(images[i], "id") # lastArg'
                        => \E j \in 1..Len(images') : images'[j] = images[i]]_vars

\* C12 witness: a successful toggle that changed one record of two and left
\* the other.
C12_Witness ==
    /\ lastOp = "toggleFavorite"
    /\ ~setItemFailed
    /\ Len(images) = 2
    /\ Len(imagesBefore) = 2
    /\ \E i, j \in 1..2 :
            /\ images[i] # imagesBefore[i]
            /\ images[j] = imagesBefore[j]

---------------------------------------------------------------------------
(* Properties of the query *)

QueryOps == {"setSearchQuery", "setFilterType", "setSortBy"}

\* C13: a change of the search text, the type filter or the sort key (each
\* runs filterAndSortImages) leaves the in-memory images and the stored value
\* as they are and calls localStorage.setItem not at all.
C13_QueryIsPure ==
    [][lastOp' \in QueryOps
        => /\ images' = images
           /\ localStorage' = localStorage
           /\ setItemCalls' = <<>>]_vars

\* C13 witness: a change of the sort key gave a result in another order than
\* the collection.
C13_Witness ==
    /\ lastOp = "setSortBy"
    /\ Len(images) = 2
    /\ Len(filteredImages) = 2
    /\ filteredImages # images

\* C14: with empty search text and type filter 'all' the result is a
\* permutation of the collection, whatever the sort key.
C14_AllRecordsReturned ==
    (galleryPc = "ready" /\ searchQuery = <<>> /\ filterType = "all")
        => \E f \in [1..Len(images) -> 1..Len(images)] :
                /\ \A i, j \in 1..Len(images) : i # j => f[i] # f[j]
                /\ filteredImages = [i \in 1..Len(images) |-> images[f[i]]]

\* C14 witness: two records with equal sort keys, all returned.
C14_Witness ==
    /\ galleryPc = "ready"
    /\ searchQuery = <<>>
    /\ filterType = "all"
    /\ sortBy = "oldest"
    /\ Len(images) = 2
    /\ images[1] # images[2]
    /\ images[1].createdAt = images[2].createdAt
    /\ Len(filteredImages) = 2

\* the letters that differ in case only
CasePairs == {<<"A", "a">>, <<"C", "c">>, <<"D", "d">>, <<"G", "g">>,
              <<"O", "o">>, <<"T", "t">>}

SameLetter(c, d) == c = d \/ <<c, d>> \in CasePairs \/ <<d, c>> \in CasePairs

\* sub occurs in s when case is ignored
ContainsIgnoringCase(s, sub) ==
    \E i \in 0..(Len(s) - Len(sub)) :
        \A k \in 1..Len(sub) : SameLetter(s[i + k], sub[k])

\* the record passes a search for the text q
PassesSearch(img, q) ==
    \/ \A k \in 1..Len(q) : q[k] = " "
    \/ ContainsIgnoringCase(img.prompt, q)
    \/ "filename" \in DOMAIN img /\ ContainsIgnoringCase(img.filename, q)

\* the record passes the type filter t
PassesType(img, t) == t = "all" \/ img.type = t

\* a holds the elements of b, each as often as b does
IsPermutationOf(a, b) ==
    /\ Len(a) = Len(b)
    /\ \E f \in [1..Len(b) -> 1..Len(b)] :
            /\ \A i, j \in 1..Len(b) : i # j => f[i] # f[j]
            /\ \A i \in 1..Len(b) : a[i] = b[f[i]]

\* C15: with type filter 'all' the result holds exactly the records that pass
\* the search: all of them when the text is empty or only blanks, otherwise
\* those whose prompt or filename contains the text, case ignored.
C15_SearchMatchesSubstring ==
    (galleryPc = "ready" /\ filterType = "all")
        => IsPermutationOf(filteredImages,
                SelectSeq(images, LAMBDA img : PassesSearch(img, searchQuery)))

\* C15 witness: an upper-case text found in the filename of one record only.
C15_Witness ==
    /\ galleryPc = "ready"
    /\ filterType = "all"
    /\ searchQuery = <<"O", "C">>
    /\ Len(images) = 2
    /\ Len(filteredImages) = 1
    /\ ~ContainsIgnoringCase(filteredImages[1].prompt, searchQuery)

\* a may stand before b in a result sorted by key
InOrder(a, b, key) ==
    CASE key = "newest" -> a.createdAt.t >= b.createdAt.t
      [] key = "oldest" -> a.createdAt.t <= b.createdAt.t
      [] key = "favorites" ->
            \/ Truthy(a, "isFavorite") /\ ~Truthy(b, "isFavorite")
            \/ /\ Truthy(a, "isFavorite") = Truthy(b, "isFavorite")
               /\ a.createdAt.t >= b.createdAt.t

\* C16: the result holds exactly the records that pass the search and, unless
\* the type filter is 'all', have the type of the filter; and it is ordered
\* by the sort key.
C16_TypeFilterExact ==
    galleryPc = "ready"
        => /\ IsPermutationOf(filteredImages,
                    SelectSeq(images, LAMBDA img :
                        PassesSearch(img, searchQuery) /\ PassesType(img, filterType)))
           /\ \A i, j \in 1..Len(filteredImages) :
                    i < j => InOrder(filteredImages[i], filteredImages[j], sortBy)

\* C16 witness: a type filter that keeps one record of two.
C16_Witness ==
    /\ galleryPc = "ready"
    /\ filterType = "upscaled"
    /\ Len(images) = 2
    /\ Len(filteredImages) = 1
    /\ filteredImages[1].type = "upscaled"

\* C17: under sort key 'favorites' no record that is not a favourite stands
\* before a favourite, and among favourites, as among the others, no record
\* stands before one created later.
C17_FavoritesFirst ==
    (galleryPc = "ready" /\ sortBy = "favorites")
        => \A i, j \in 1..Len(filteredImages) :
                i < j =>
                    LET a == filteredImages[i]
                        b == filteredImages[j]
                    IN  /\ ~(~Truthy(a, "isFavorite") /\ Truthy(b, "isFavorite"))
                        /\ Truthy(a, "isFavorite") = Truthy(b, "isFavorite")
                                => a.createdAt.t >= b.createdAt.t

\* C17 witness: a favourite shown before a record created later that is not one.
C17_Witness ==
    /\ galleryPc = "ready"
    /\ sortBy = "favorites"
    /\ Len(filteredImages) = 2
    /\ Truthy(filteredImages[1], "isFavorite")
    /\ ~Truthy(filteredImages[2], "isFavorite")
    /\ filteredImages[1].createdAt.t < filteredImages[2].createdAt.t

Reverse(s) == [i \in 1..Len(s) |-> s[Len(s) + 1 - i]]

DistinctCreatedAt(imgs) ==
    \A i, j \in 1..Len(imgs) : i # j => imgs[i].createdAt # imgs[j].createdAt

\* C18: for a collection with pairwise distinct createdAt, and search text
\* and type filter unchanged, switching the sort key between 'newest' and
\* 'oldest' reverses the result.
C18_NewestReversedIsOldest ==
    [][(/\ galleryPc = "ready"
        /\ lastOp' = "setSortBy"
        /\ {sortBy, sortBy'} = {"newest", "oldest"}
        /\ DistinctCreatedAt(images))
        => filteredImages' = Reverse(filteredImages)]_vars

\* C18 witness: two records shown oldest first after the switch.
C18_Witness ==
    /\ lastOp = "setSortBy"
    /\ sortBy = "oldest"
    /\ Len(filteredImages) = 2
    /\ filteredImages[1].createdAt.t < filteredImages[2].createdAt.t

\* the two records have equal sort keys
EqualKey(a, b, key) ==
    /\ a.createdAt = b.createdAt
    /\ key = "favorites" => Truthy(a, "isFavorite") = Truthy(b, "isFavorite")

\* C19: the records of the result that share a sort key stand in the order
\* they have in the in-memory collection.
C19_SortIsStable ==
    galleryPc = "ready"
        => \A n \in 1..Len(images) :
                SelectSeq(filteredImages, LAMBDA x : EqualKey(x, images[n], sortBy))
                    = SelectSeq(images, LAMBDA x :
                            /\ PassesSearch(x, searchQuery)
                            /\ PassesType(x, filterType)
                            /\ EqualKey(x, images[n], sortBy))

\* C19 witness: two different records with equal keys, shown in the order of
\* the collection, which is not the order of their ids.
C19_Witness ==
    /\ galleryPc = "ready"
    /\ Len(filteredImages) = 2
    /\ filteredImages = images
    /\ filteredImages[1].url = "u3"
    /\ filteredImages[2].url = "u2"
    /\ EqualKey(filteredImages[1], filteredImages[2], sortBy)

---------------------------------------------------------------------------
(* Properties of the store round trip *)

\* C20: what loadImages reads from the value that a successful saveImages has
\* just stored is the collection that was saved: the same records in the same
\* order, each createdAt the same Date.
C20_RoundTrip ==
    [][(lastOp' \in MutatingOps /\ ~setItemFailed')
        => LET r == LoadResult(localStorage')
           IN  /\ r.set
               /\ ~r.threw
               /\ Len(r.value) = Len(images')
               /\ \A i \in 1..Len(images') : r.value[i] = images'[i]]_vars

---------------------------------------------------------------------------
(* Properties of App *)

\* no tool component holds state and none has a call of its own in progress
NoToolInUse ==
    /\ galleryPc = "unmounted"
    /\ images = <<>>
    /\ genCall = NoCall /\ ~isGenerating /\ generatedImages = <<>>
    /\ upCall = NoCall /\ ~isProcessing /\ selectedFile = NoFile
    /\ batchCall = NoCall /\ ~batchGenerating /\ batchJobs = <<>>

---------------------------------------------------------------------------
(* Properties of the BatchGenerator *)

\* the job of batchJobs with the id
JobOf(jobs, jobId) == jobs[CHOOSE n \in 1..Len(jobs) : jobs[n].id = jobId]

\* the first n requests are those for the first n variations, in that order
RequestsFollow(requests, base, valid) ==
    /\ Len(requests) <= Len(valid)
    /\ \A k \in 1..Len(requests) : requests[k] = FullPrompt(base, valid[k])

\* C22: a generateBatch asks the service for one image per variation that is
\* not blank, in the order of the list and one request at a time: while it
\* awaits request number i + 1 it has made exactly i + 1 requests, those for
\* the first i + 1 variations, and when it has ended it has made exactly one
\* request per variation; the images of a job carry strictly increasing
\* variation numbers, each the number of the variation the image was asked
\* for, and are never more than the job's variations.
C22_OneCallPerVariationInOrder ==
    /\ batchCall.pc = "awaiting" =>
        LET job == JobOf(batchJobs, batchCall.jobId)
        IN  /\ job.variations = batchCall.validVariations
            /\ Len(batchRequests) = batchCall.i + 1
            /\ RequestsFollow(batchRequests, job.basePrompt, job.variations)
    /\ (batchCall = NoCall /\ batchJobs # <<>>) =>
        /\ Len(batchRequests) = Len(Head(batchJobs).variations)
        /\ RequestsFollow(batchRequests, Head(batchJobs).basePrompt,
                          Head(batchJobs).variations)
    /\ \A n \in 1..Len(batchJobs) :
        LET job == batchJobs[n]
        IN  /\ \A k \in 1..Len(job.variations) : Trim(job.variations[k]) # <<>>
            /\ Len(job.images) <= Len(job.variations)
            /\ \A k \in 1..Len(job.images) :
                /\ job.images[k].variation \in 1..Len(job.variations)
                /\ job.images[k].prompt =
                        FullPrompt(job.basePrompt,
                                   job.variations[job.images[k].variation])
                /\ k > 1 => job.images[k - 1].variation < job.images[k].variation

\* C22 witness: a job of two variations has ended with the image of the
\* second only, after two requests.
C22_Witness ==
    /\ batchCall = NoCall
    /\ batchJobs # <<>>
    /\ Len(Head(batchJobs).variations) = 2
    /\ Len(Head(batchJobs).images) = 1
    /\ Head(batchJobs).images[1].variation = 2
    /\ Len(batchRequests) = 2

JobStatuses == {"generating", "completed", "failed"}

\* C23: every job has one of the three statuses; a job enters batchJobs as
\* 'generating' and without images; the status of a job changes only from
\* 'generating' to 'completed' or 'failed', and only in the step that ends
\* the generateBatch of that job; the job of the generateBatch in progress is
\* the only one that is 'generating'.
C23_StatusChangesOnce ==
    [][/\ \A n \in 1..Len(batchJobs') : batchJobs'[n].status \in JobStatuses
       /\ Len(batchJobs') > Len(batchJobs) =>
            /\ Len(batchJobs') = Len(batchJobs) + 1
            /\ batchJobs'[1].status = "generating"
            /\ batchJobs'[1].images = <<>>
            /\ batchCall = NoCall
            /\ batchCall'.pc = "awaiting"
            /\ batchCall'.jobId = batchJobs'[1].id
       /\ Len(batchJobs') >= Len(batchJobs) =>
            \A n \in 1..Len(batchJobs) :
                LET old == batchJobs[n]
                    new == batchJobs'[n + Len(batchJobs') - Len(batchJobs)]
                IN  /\ new.id = old.id
                    /\ new.status # old.status =>
                        /\ old.status = "generating"
                        /\ new.status \in {"completed", "failed"}
                        /\ batchCall.pc = "awaiting"
                        /\ batchCall.jobId = old.id
                        /\ batchCall' = NoCall
       /\ \A n \in 1..Len(batchJobs') :
            batchJobs'[n].status = "generating"
                <=> (batchCall'.pc = "awaiting" /\ batchCall'.jobId = batchJobs'[n].id)]_vars

\* C23 witness: a second job is generating, the first has been completed.
C23_Witness ==
    /\ Len(batchJobs) = 2
    /\ batchJobs[1].status = "generating"
    /\ batchJobs[2].status = "completed"
    /\ batchCall.pc = "awaiting"

\* C27: no job has the status 'failed'; when the last request of a job
\* fails, the job becomes 'completed' with the images it had, none if every
\* request failed.
C27_FailedCallsDoNotFailJob ==
    [][/\ \A n \in 1..Len(batchJobs') : batchJobs'[n].status # "failed"
       /\ (batchCall.pc = "awaiting" /\ batchCall' = NoCall
                /\ lastOp' = "batchCallRejected")
            => LET job == JobOf(batchJobs', batchCall.jobId)
               IN  /\ job.status = "completed"
                   /\ job.images = batchCall.generatedImages
                   /\ lastToast' = "Batch generation completed!"]_vars

\* C27 witness: a job of two variations, both requests failed.
C27_Witness ==
    /\ lastOp = "batchCallRejected"
    /\ batchCall = NoCall
    /\ batchJobs # <<>>
    /\ Len(Head(batchJobs).variations) = 2
    /\ Head(batchJobs).images = <<>>
    /\ Head(batchJobs).status = "completed"

\* C30: the variations list has between 1 and 10 entries; addVariation adds
\* one entry below 10 entries and changes nothing at 10, removeVariation
\* removes one entry above 1 entry and changes nothing at 1, updateVariation
\* keeps the length.
C30_VariationsBetween1And10 ==
    [][/\ Len(variations) \in 1..10
       /\ Len(variations') \in 1..10
       /\ lastOp' = "addVariation" =>
            IF Len(variations) = 10
                THEN variations' = variations
                ELSE Len(variations') = Len(variations) + 1
       /\ lastOp' = "removeVariation" =>
            IF Len(variations) = 1
                THEN variations' = variations
                ELSE Len(variations') = Len(variations) - 1
       /\ lastOp' = "updateVariation" => Len(variations') = Len(variations)]_vars

\* C30 witness: ten variations, the last one added and then filled in.
C30_Witness ==
    /\ Len(variations) = 10
    /\ lastOp = "updateVariation"
    /\ variations[10] # EmptyString

---------------------------------------------------------------------------
(* Properties of the ImageGenerator *)

\* the requests to blink.ai.generateImage of the ImageGenerator that have
\* not been answered
GenerateCallsInFlight == (IF genCall.pc = "awaiting" THEN 1 ELSE 0) + genOrphans

\* C24: at most one remote operation of a tool is in flight: a handleGenerate
\* does not begin before the one before it has finished.
C24_OneRequestInFlight == GenerateCallsInFlight <= 1

\* the intervals of the mounted ImageGenerator that have not been cleared
ProgressTimers ==
    (IF genCall.pc = "awaiting" /\ genCall.timer THEN 1 ELSE 0) + genStrayTimers

\* C25: the progress timer runs only while a request is pending: when
\* isGenerating is false there is no timer and progress is 0, and there is
\* never more than one timer.
C25_TimerOnlyWhilePending ==
    /\ ProgressTimers <= 1
    /\ ~isGenerating => (ProgressTimers = 0 /\ genProgress = 0)

---------------------------------------------------------------------------
(* Properties of UnblurTool, UpscalerTool and BackgroundRemover *)

\* C26: every upscaleImage that has started returns the tool to idle in the
\* end, whatever the selected file is.
C26_UpscaleReturnsToIdle ==
    (Mounted("upscaler") /\ isProcessing) ~> (~isProcessing /\ upProgress = 0)

\* C28: the selected file is null or an image of at most 10MB.
C28_SelectedFileIsSmallImage ==
    selectedFile = NoFile \/ (selectedFile.image /\ ~selectedFile.big)

\* a step in which the mounted tool stays mounted
StaysMounted == activeTool' = activeTool /\ Shown /\ Shown'

\* C29: modifyImage is called only by the step in which the upload succeeds;
\* when the upload or modifyImage fails the results list and the selected
\* file are unchanged and the tool is idle; the results list of a mounted
\* tool changes only when modifyImage succeeds, by one result for the file of
\* the call at its head, with the selection cleared and the tool idle.
C29_AllOrNothing ==
    [][/\ (upCall.pc # "modifying" /\ upCall'.pc = "modifying") =>
            /\ upCall.pc = "uploading"
            /\ upProgress' = 30
            /\ upscaledImages' = upscaledImages
       /\ (StaysMounted /\ upCall.pc \in {"uploading", "modifying"}
                /\ upCall' = NoCall /\ upscaledImages' = upscaledImages) =>
            /\ lastOp' = "upscaleRejected"
            /\ lastToast' = FailureToast(activeTool)
            /\ selectedFile' = selectedFile
            /\ previewUrl' = previewUrl
            /\ ~isProcessing'
            /\ upProgress' = 0
       /\ (StaysMounted /\ upscaledImages' # upscaledImages) =>
            /\ upCall.pc = "modifying"
            /\ upCall' = NoCall
            /\ lastOp' = "upscaleResolved"
            /\ Len(upscaledImages') = Len(upscaledImages) + 1
            /\ Tail(upscaledImages') = upscaledImages
            /\ Head(upscaledImages').filename = upCall.file.name
            /\ selectedFile' = NoFile
            /\ ~isProcessing'
            /\ upProgress' = 0]_vars

\* C29 witness: the UnblurTool has one result, and a later processImage has
\* failed and left the file selected.
C29_Witness ==
    /\ Mounted("unblur")
    /\ lastOp = "upscaleRejected"
    /\ lastToast = "Enhancement failed"
    /\ upCall = NoCall
    /\ ~isProcessing
    /\ selectedFile = FilePng
    /\ Len(upscaledImages) = 1

====
